---- MODULE Spec2Model ----
(***************************************************************************)
(* Interactive chat session of chatinstance-cli: chatCommand (the session  *)
(* loop with its slash commands and its transcript `messages`) and         *)
(* ChatInstanceAPI.streamChat (the event-stream reader).                   *)
(*                                                                         *)
(* Text is a sequence of lexemes.  A lexeme is a run of characters that    *)
(* the model never cuts: single characters for message text, and the       *)
(* fixed pieces of the wire format ("data:", the JSON envelope around a    *)
(* content string, "[DONE]").  A physical chunk boundary can fall between  *)
(* any two lexemes.                                                        *)
(***************************************************************************)
EXTENDS Integers, Sequences, FiniteSets, TLC

(***************************************************************************)
(* Bounds of the model                                                     *)
(***************************************************************************)
\* chat turns (non-command input lines) followed in one session
MaxTurns == 2
\* chunk boundaries the transport puts into one response stream
MaxCuts == 1
\* the commands of the CLI started one after the other
MaxRuns == 2

(***************************************************************************)
(* Text helpers: what the JavaScript string methods used by the code do    *)
(***************************************************************************)
NL == "\n"
SP == " "

WhiteSpace == {" ", "\t", "\r", "\n"}

UpperCase == <<"A", "B", "C", "D", "E", "F", "G", "H", "I", "J", "K", "L", "M",
               "N", "O", "P", "Q", "R", "S", "T", "U", "V", "W", "X", "Y", "Z">>

LowerCase == <<"a", "b", "c", "d", "e", "f", "g", "h", "i", "j", "k", "l", "m",
               "n", "o", "p", "q", "r", "s", "t", "u", "v", "w", "x", "y", "z">>

\* String.prototype.toLowerCase on one character
LowerChar(c) ==
    IF \E i \in 1..26 : UpperCase[i] = c
    THEN LowerCase[CHOOSE i \in 1..26 : UpperCase[i] = c]
    ELSE c

\* a command token that keeps its letter case
KeepCase(s) == s

\* String.prototype.toLowerCase
toLowerCase(s) == [i \in 1..Len(s) |-> LowerChar(s[i])]

\* String.prototype.trim
trim(s) ==
    LET keep == {i \in 1..Len(s) : s[i] \notin WhiteSpace}
    IN  IF keep = {} THEN <<>>
        ELSE LET lo == CHOOSE i \in keep : \A j \in keep : i <= j
                 hi == CHOOSE i \in keep : \A j \in keep : j <= i
             IN  SubSeq(s, lo, hi)

\* a prefix test that takes the field name in upper case too
startsWithAnyCase(s, p) ==
    /\ Len(s) >= Len(p)
    /\ \A i \in 1..Len(p) :
          s[i] = p[i] \/ (p[i] = "data:" /\ s[i] = "DATA:")

\* String.prototype.startsWith
startsWith(s, p) == Len(s) >= Len(p) /\ SubSeq(s, 1, Len(p)) = p

\* String.prototype.slice(n) with n >= 0
slice(s, n) == SubSeq(s, n + 1, Len(s))

\* String.prototype.split on a one-character separator: the pieces between
\* the separators, empty pieces included ("a\n".split("\n") is ["a", ""])
RECURSIVE split(_, _)
split(s, sep) ==
    IF \A i \in 1..Len(s) : s[i] # sep THEN <<s>>
    ELSE LET k == CHOOSE i \in 1..Len(s) :
                     s[i] = sep /\ \A j \in 1..(i - 1) : s[j] # sep
         IN  <<SubSeq(s, 1, k - 1)>> \o split(SubSeq(s, k + 1, Len(s)), sep)

\* concatenation of a sequence of texts
RECURSIVE Concat(_)
Concat(ss) == IF ss = <<>> THEN <<>> ELSE Head(ss) \o Concat(Tail(ss))

(***************************************************************************)
(* Wire format of the event stream                                         *)
(***************************************************************************)
\* the event-data prefix 'data: ' of streamChat, as the lexemes "data:" " "
DataPrefix == <<"data:", SP>>
\* the number of lexemes line.slice(6) drops: the length of 'data: '
PrefixLen == Len(DataPrefix)
\* the sentinel payload
Sentinel == <<"[DONE]">>
\* the JSON text before and after a content string
JsonOpen == "{\"choices\":[{\"delta\":{\"content\":\""
JsonClose == "\"}}]}"
\* a JSON event without a content fragment
JsonMeta == "{\"choices\":[{\"delta\":{}}]}"

\* characters that can stand inside a JSON string unescaped
ContentChars == {"H", "e", "l", "o", "i", "!"}

\* a parse that takes an event without content for a fragment
DeltaContentOfMeta(data) ==
    IF /\ Len(data) >= 2
       /\ data[1] = JsonOpen
       /\ data[Len(data)] = JsonClose
       /\ \A i \in 2..(Len(data) - 1) : data[i] \in ContentChars
    THEN [parsed |-> TRUE, content |-> SubSeq(data, 2, Len(data) - 1)]
    ELSE [parsed |-> TRUE, content |-> <<"!">>]

\* JSON.parse(data) followed by parsed.choices?.[0]?.delta?.content:
\* whether the payload parses, and the content string of the event (<<>>
\* when the event has none or an empty one)
DeltaContent(data) ==
    IF /\ Len(data) >= 2
       /\ data[1] = JsonOpen
       /\ data[Len(data)] = JsonClose
       /\ \A i \in 2..(Len(data) - 1) : data[i] \in ContentChars
    THEN [parsed |-> TRUE, content |-> SubSeq(data, 2, Len(data) - 1)]
    ELSE IF data = <<JsonMeta>>
    THEN [parsed |-> TRUE, content |-> <<>>]
    ELSE [parsed |-> FALSE, content |-> <<>>]

\* the loop over the lines of one chunk in the 'data' handler of streamChat:
\* the fragments handed to onChunk, in order, and whether the sentinel was
\* reached (resolve() and return, the rest of the chunk is not looked at)
RECURSIVE HandleLines(_, _)
HandleLines(lines, frags) ==
    IF lines = <<>> THEN [frags |-> frags, done |-> FALSE]
    ELSE LET line == Head(lines) IN
         IF startsWith(line, DataPrefix)
         THEN LET data == trim(slice(line, PrefixLen)) IN
              IF data = Sentinel
              THEN [frags |-> frags, done |-> TRUE]
              ELSE LET d == DeltaContent(data) IN
                   IF d.parsed /\ d.content # <<>>
                   THEN HandleLines(Tail(lines), Append(frags, d.content))
                   ELSE HandleLines(Tail(lines), frags)
         ELSE HandleLines(Tail(lines), frags)

\* the 'data' handler of streamChat on one chunk
OnData(chunk) == HandleLines(split(chunk, NL), <<>>)

(***************************************************************************)
(* What the transport can deliver                                          *)
(***************************************************************************)
Event(content) == DataPrefix \o <<JsonOpen>> \o content \o <<JsonClose, NL>>
DoneLine == DataPrefix \o Sentinel \o <<NL>>

\* data: {..."Hello"...}\n\ndata: [DONE]\n
WireHello == Event(<<"H", "e", "l", "l", "o">>) \o <<NL>> \o DoneLine
\* two events and the sentinel
WireTwo == Event(<<"H", "i">>) \o Event(<<"!">>) \o DoneLine
\* one event, the stream ends without a sentinel
WireNoDone == Event(<<"H", "i">>)
\* an event still sent after the sentinel
WireLate == Event(<<"H", "i">>) \o DoneLine \o Event(<<"!">>)

\* the sentinel in lower case, and an event after it
WireLower ==
    Event(<<"H", "i">>) \o DataPrefix \o <<"[done]", NL>> \o Event(<<"!">>)
\* the sentinel with blanks around it, and an event after it
WirePadded ==
    Event(<<"H", "i">>) \o DataPrefix \o <<SP, "[DONE]", SP, NL>>
        \o Event(<<"!">>)

\* a payload that is no JSON and an event without content between two
\* events
WireBad ==
    Event(<<"H", "i">>) \o DataPrefix \o <<"{oops", NL>>
        \o DataPrefix \o <<JsonMeta, NL>> \o Event(<<"!">>) \o DoneLine
\* a comment, a blank line, an event: line, DATA: and data: without the
\* space among two events
WireNoise ==
    <<":ping", NL>> \o Event(<<"H", "i">>) \o <<NL>>
        \o <<"event:", SP, "message", NL>>
        \o <<"DATA:", SP, JsonOpen, "o", JsonClose, NL>>
        \o <<"data:", JsonOpen, "e", JsonClose, NL>>
        \o Event(<<"!">>) \o DoneLine

\* event streams in which every line is complete and nothing follows the
\* sentinel
WellFormed == {WireHello, WireTwo, WireNoDone}
\* the response streams of a session
SessionStreams == WellFormed \cup {WireLate}
\* the response streams of a single call of streamChat
StreamCatalog ==
    SessionStreams \cup {WireLower, WirePadded, WireBad, WireNoise}

\* where the transport can end a chunk: after any lexeme, or only after a
\* complete line
CutPoints(text, anywhere) ==
    {k \in 1..(Len(text) - 1) : anywhere \/ text[k] = NL}

\* the ways of cutting a text into consecutive non-empty chunks with at most
\* n chunk boundaries
RECURSIVE Chunkings(_, _, _)
Chunkings(text, n, anywhere) ==
    IF n = 0 THEN {<<text>>}
    ELSE {<<text>>} \cup
         UNION {{<<SubSeq(text, 1, k)>> \o rest :
                    rest \in Chunkings(SubSeq(text, k + 1, Len(text)), n - 1,
                                       anywhere)} :
                k \in CutPoints(text, anywhere)}

(***************************************************************************)
(* What the user can type and what the service can answer                  *)
(***************************************************************************)
Chatgpt == <<"c", "h", "a", "t", "g", "p", "t">>
Claude == <<"c", "l", "a", "u", "d", "e">>
\* the model of every request; the session never changes it
Gpt4o == <<"g", "p", "t", "-", "4", "o">>
\* a system prompt given with --system
Terse == <<"B", "e", " ", "t", "e", "r", "s", "e", ".">>

\* the lines the user types at the prompt, as typed
InputLines ==
    { <<" ", "h", "i", " ">>,
      <<>>,
      <<" ", " ", " ">>,
      <<"/", "h", "e", "l", "p">>,
      <<"/", "e", "x", "i", "t">>,
      <<"/", "Q", "U", "I", "T">>,
      <<"/", "c", "l", "e", "a", "r">>,
      <<"/", "C", "l", "e", "a", "r", " ", "a", "l", "l">>,
      <<"/", "p", "r", "o", "v", "i", "d", "e", "r", " ">> \o Claude,
      <<"/", "p", "r", "o", "v", "i", "d", "e", "r">>,
      <<"/", "t", "o", "k", "e", "n", "s">>,
      <<"/", "m", "o", "d", "e", "l", " ", "x">> }

\* the bodies api.chat can return: the content of choices[0].message, <<>>
\* for the absent pieces
ChatResponses ==
    { [choices |-> 1, content |-> <<"H", "i", "!">>, usage |-> TRUE],
      [choices |-> 1, content |-> <<"H", "i">>, usage |-> FALSE],
      [choices |-> 0, content |-> <<>>, usage |-> TRUE] }

(***************************************************************************)
(* The stored configuration and the values typed on the command line      *)
(***************************************************************************)
Digits == <<"0", "1", "2", "3", "4", "5", "6", "7", "8", "9">>
IsDigit(c) == \E i \in 1..Len(Digits) : Digits[i] = c
DigitValue(c) == (CHOOSE i \in 1..Len(Digits) : Digits[i] = c) - 1

\* [a-zA-Z0-9]
AlphaNum ==
    {UpperCase[i] : i \in 1..26} \cup {LowerCase[i] : i \in 1..26}
        \cup {Digits[i] : i \in 1..Len(Digits)}

\* the least number of characters after ci_
MinKeyBody == 20
KeyPrefix == <<"c", "i", "_">>

\* /^ci_[a-zA-Z0-9]{20,}$/.test(apiKey)
validateApiKey(apiKey) ==
    /\ Len(apiKey) >= Len(KeyPrefix) + MinKeyBody
    /\ SubSeq(apiKey, 1, Len(KeyPrefix)) = KeyPrefix
    /\ \A i \in (Len(KeyPrefix) + 1)..Len(apiKey) : apiKey[i] \in AlphaNum

\* two keys of the right format, a key that is too short for it, and a
\* value of three characters
KeyA == KeyPrefix \o [i \in 1..16 |-> "a"] \o <<"1", "2", "3", "4">>
KeyB == KeyPrefix \o [i \in 1..16 |-> "b"] \o <<"5", "6", "7", "8">>
BadKey == KeyPrefix \o <<"x">>
ShortSecret == <<"a", "b", "c">>

\* the values of the configuration: a key that is not set, a string, a
\* number (held in tenths), a boolean
Unset == [kind |-> "unset", text |-> <<>>, num |-> 0]
Text(t) == [kind |-> "text", text |-> t, num |-> 0]
Number(tenths) == [kind |-> "number", text |-> <<>>, num |-> tenths]
Flag(b) == [kind |-> "flag", text |-> <<>>, num |-> IF b THEN 1 ELSE 0]

\* the number of digits a text begins with
RECURSIVE DigitRun(_)
DigitRun(s) ==
    IF s = <<>> \/ ~IsDigit(Head(s)) THEN 0 ELSE 1 + DigitRun(Tail(s))

\* the number a text of digits stands for
RECURSIVE DigitsValue(_)
DigitsValue(s) ==
    IF s = <<>> THEN 0
    ELSE 10 * DigitsValue(SubSeq(s, 1, Len(s) - 1)) + DigitValue(s[Len(s)])

NaN == [nan |-> TRUE, num |-> 0]

\* the sign and the rest of a text that number parsing reads: white space
\* is skipped, one sign is taken
Signed(s) ==
    LET t == trim(s)
        signed == t # <<>> /\ t[1] \in {"-", "+"}
    IN  [sign |-> IF t # <<>> /\ t[1] = "-" THEN 0 - 1 ELSE 1,
         body |-> IF signed THEN Tail(t) ELSE t]

\* parseInt(value): the digits the text begins with, in tenths; NaN when
\* there is none
parseInt(value) ==
    LET p == Signed(value)
        n == DigitRun(p.body)
    IN  IF n = 0 THEN NaN
        ELSE [nan |-> FALSE,
              num |-> p.sign * 10 * DigitsValue(SubSeq(p.body, 1, n))]

\* parseFloat(value), in tenths: digits, then a point and digits; NaN when
\* there is no digit. The values typed have one decimal at most
parseFloat(value) ==
    LET p == Signed(value)
        n == DigitRun(p.body)
        rest == SubSeq(p.body, n + 1, Len(p.body))
        m == IF rest # <<>> /\ rest[1] = "." THEN DigitRun(Tail(rest)) ELSE 0
    IN  IF n + m = 0 THEN NaN
        ELSE [nan |-> FALSE,
              num |-> p.sign * (10 * DigitsValue(SubSeq(p.body, 1, n))
                                + (IF m = 0 THEN 0 ELSE DigitValue(rest[2])))]

\* const validKeys of config set
ValidKeys ==
    {"apiKey", "apiUrl", "defaultProvider", "defaultModel", "maxTokens",
     "temperature", "streamResponse", "saveHistory", "historyLimit", "debug"}

ApiUrl == <<"u", "r", "l">>

\* the defaults of the Conf store
Defaults ==
    [k \in ValidKeys |->
        CASE k = "apiKey" -> Unset
          [] k = "apiUrl" -> Text(ApiUrl)
          [] k = "defaultProvider" -> Text(Chatgpt)
          [] k = "defaultModel" -> Text(Gpt4o)
          [] k = "maxTokens" -> Number(20000)
          [] k = "temperature" -> Number(7)
          [] k = "streamResponse" -> Flag(FALSE)
          [] k = "saveHistory" -> Flag(TRUE)
          [] k = "historyLimit" -> Number(1000)
          [] k = "debug" -> Flag(FALSE)]

\* no body received
NoBody == [choices |-> 0, content |-> <<>>, usage |-> FALSE]

(***************************************************************************)
(* The terminal                                                            *)
(***************************************************************************)
\* stdout.columns || 80 of getTerminalWidth
DefaultColumns == 80
\* the widest box of formatChatBox and the widest separator
MaxBoxWidth == 50
MaxSeparatorWidth == 80
\* the margin both leave
Margin == 4
\* 'ChatInstance CLI v1.0.0'.length and 'Chat Commands'.length
HeaderTitleLen == 23
HelpTitleLen == 13

\* the widths the terminal window is given
Widths == {80, 24}

Min(a, b) == IF a < b THEN a ELSE b
Max(a, b) == IF a > b THEN a ELSE b

\* TerminalUtils.getTerminalWidth
getTerminalWidth(cols) == IF cols = 0 THEN DefaultColumns ELSE cols

\* String.prototype.repeat throws a RangeError on a negative count
RepeatThrows(count) == count < 0

\* TerminalUtils.formatChatBox(title) throws
BoxThrows(titleLen, cols) ==
    LET boxWidth == Min(getTerminalWidth(cols) - Margin, MaxBoxWidth)
        padding == Max(0, (boxWidth - titleLen - 2) \div 2)
    IN  \/ RepeatThrows(boxWidth - 2)
        \/ RepeatThrows(padding)
        \/ RepeatThrows(boxWidth - 2 - padding - titleLen)

\* TerminalUtils.createSeparator() throws
SeparatorThrows(cols) ==
    RepeatThrows(Min(getTerminalWidth(cols) - Margin, MaxSeparatorWidth))

(***************************************************************************)
(* State                                                                   *)
(***************************************************************************)
VARIABLES
    system,      \* options.system, <<>> when not given
    columns,     \* process.stdout.columns, the width of the terminal
    provider,    \* const provider of chatCommand
    useStream,   \* const useStream of chatCommand
    messages,    \* the transcript: const messages of chatCommand
    pc,          \* where chatCommand is suspended
    userInput,   \* const userInput of the current chat turn
    typed,       \* history: the line last typed at the prompt
    printed,     \* the last diagnostic written to the console
    printedArg,  \* the value shown in it: a provider name, a number
    requests,    \* the requests handed to the transport, in order
    response,    \* let response of the current streaming turn
    terminal,    \* what onChunk wrote to stdout in the current turn
    promise,     \* the promise streamChat returned for the current turn
    stream,      \* the response stream of the current turn
    chunks,      \* the chunks the transport has not delivered yet
    wire,        \* history: the whole text of the current response stream
    delivered,   \* history: the fragments handed to onChunk, in order
    sentinel,    \* history: the sentinel was seen in the current stream
    afterDone,   \* history: the fragments handed to onChunk after it
    outcome,     \* history: how the current turn went
    committed,   \* history: the content committed for the current turn
    received,    \* history: the body api.chat returned in the current turn
    preTurn,     \* history: the transcript when the line of the turn was read
    orphan,      \* history: position of the user message of a failed turn
    orphanText,  \* history: its content
    orphanShown, \* history: what the failed turn had written to stdout
    turns,       \* history: the chat turns started
    conf,        \* the Conf store of ConfigManager, by key
    cli,         \* where the running command of the CLI is suspended
    loginKey,    \* const apiKey of loginCommand
    setArg,      \* key and value of config set
    force,       \* options.force of deleteInstance
    fetched,     \* history: api.getInstance has answered in this command
    answer,      \* history: what the user answered to the confirmation
    deletes,     \* history: the delete requests sent
    shown,       \* what config get / config list wrote: key and value
    said,        \* the last diagnostic of a CLI command
    before,      \* history: the store when the command was started
    runs         \* history: the commands started

vars == <<system, columns, provider, useStream, messages, pc, userInput,
          typed, printed, printedArg, requests, response, terminal, promise,
          stream, chunks, wire, delivered, sentinel, afterDone, outcome,
          committed, received, preTurn, orphan, orphanText, orphanShown,
          turns, conf, cli, loginKey, setArg, force, fetched, answer, deletes,
          shown, said, before, runs>>

sessionVars == <<system, provider, useStream>>
chatVars == <<system, columns, provider, useStream, messages, pc, userInput,
              typed, printed, printedArg, requests, response, terminal,
              promise, stream, chunks, wire, delivered, sentinel, afterDone,
              outcome, committed, received, preTurn, orphan, orphanText,
              orphanShown, turns>>
cliVars == <<conf, cli, loginKey, setArg, force, fetched, answer, deletes,
             shown, said, before, runs>>
deleteVars == <<force, fetched, answer, deletes>>
consoleVars == <<printed, printedArg>>
streamVars == <<response, terminal, promise, stream, chunks, wire, delivered,
                sentinel, afterDone>>
turnVars == <<outcome, committed, received, preTurn, orphan, orphanText,
              orphanShown, turns>>

Msg(role, content) == [role |-> role, content |-> content]

\* messages as chatCommand builds it before the loop
SeedMessages(sys) ==
    IF sys # <<>> THEN <<Msg("system", sys)>> ELSE <<>>

\* what is typed after config set: the key, the value, and whether a
\* value was given at all
Arg(key, value) == [key |-> key, value |-> value, given |-> TRUE]
NoArg == [key |-> "", value |-> <<>>, given |-> FALSE]

\* no command of the CLI has been run: the store holds its defaults
CliInit ==
    /\ conf = Defaults
    /\ cli = "shell"
    /\ loginKey = <<>>
    /\ setArg = NoArg
    /\ force = FALSE
    /\ fetched = FALSE
    /\ answer = "none"
    /\ deletes = 0
    /\ shown = {}
    /\ said = "none"
    /\ before = Defaults
    /\ runs = 0

Init ==
    /\ CliInit
    /\ system \in {<<>>, Terse}
    /\ columns = DefaultColumns
    /\ provider = Chatgpt
    /\ useStream \in BOOLEAN
    /\ messages = SeedMessages(system)
    /\ pc = "prompt"
    /\ userInput = <<>>
    /\ typed = <<>>
    /\ printed = "header"
    /\ printedArg = <<>>
    /\ requests = <<>>
    /\ response = <<>>
    /\ terminal = <<>>
    /\ promise = "none"
    /\ stream = "none"
    /\ chunks = <<>>
    /\ wire = <<>>
    /\ delivered = <<>>
    /\ sentinel = FALSE
    /\ afterDone = <<>>
    /\ outcome = "none"
    /\ committed = <<>>
    /\ received = NoBody
    /\ preTurn = <<>>
    /\ orphan = 0
    /\ orphanText = <<>>
    /\ orphanShown = <<>>
    /\ turns = 0

(***************************************************************************)
(* The input prompt and the slash commands                                 *)
(***************************************************************************)
\* a validation that does not trim the line
ValidUntrimmed(line) == Len(line) > 0

\* validate of the inquirer prompt
Valid(line) == Len(trim(line)) > 0

\* userInput.slice(1).split(' '): the command token and its arguments
Parts(input) == split(slice(input, 1), SP)
Command(input) == toLowerCase(Head(Parts(input)))
Args(input) == Tail(Parts(input))

\* a test for the slash that takes lower-case lines only
IsSlashLower(input) ==
    startsWith(input, <<"/">>) /\ input = toLowerCase(input)

\* userInput.startsWith('/')
IsSlash(input) == startsWith(input, <<"/">>)

\* the case of the switch the line runs: the lower-cased command token of a
\* slash line, <<>> for a chat line
Word(line) == IF IsSlash(trim(line)) THEN Command(trim(line)) ELSE <<>>

\* the prompt hands the line to the loop
Reads(line) == pc = "prompt" /\ Valid(line) /\ typed' = line

\* chatCommand has ended: process.exit(0) of /exit, the outer catch of an
\* exception (process.exit(1)), the outer catch of a failed prompt
Stopped == {"exited", "crashed", "closed"}

\* an exception reaches the outer catch of chatCommand
Crashes == pc' = "crashed" /\ printed' = "Chat failed:" /\ printedArg' = <<>>

\* console.log of a diagnostic
Says(text, arg) == printed' = text /\ printedArg' = arg

\* the prompt refuses the line and asks again
RejectInput ==
    \E line \in InputLines :
        /\ pc = "prompt"
        /\ ~Valid(line)
        /\ typed' = line
        /\ Says("Please enter a message", <<>>)
        /\ UNCHANGED <<cliVars, sessionVars, columns, messages, pc, userInput,
                       requests, streamVars, turnVars>>

\* inquirer.prompt rejects: the input is closed or interrupted
PromptFails ==
    /\ pc = "prompt"
    /\ pc' = "closed"
    /\ Says("Chat failed:", <<>>)
    /\ UNCHANGED <<cliVars, sessionVars, columns, messages, userInput, typed, requests,
                   streamVars, turnVars>>

\* the terminal window is resized
Resize ==
    /\ pc \notin Stopped
    /\ columns' \in Widths \ {columns}
    /\ UNCHANGED <<cliVars, sessionVars, messages, pc, userInput, typed, consoleVars,
                   requests, streamVars, turnVars>>

\* case 'help'
Help ==
    \E line \in InputLines :
        /\ Reads(line)
        /\ Word(line) = <<"h", "e", "l", "p">>
        /\ IF BoxThrows(HelpTitleLen, columns)
           THEN Crashes
           ELSE Says("Chat Commands", <<>>) /\ UNCHANGED pc
        /\ UNCHANGED <<cliVars, sessionVars, columns, messages, userInput, requests,
                       streamVars, turnVars>>

\* case 'exit', case 'quit'
Exit ==
    \E line \in InputLines :
        /\ Reads(line)
        /\ Word(line) \in {<<"e", "x", "i", "t">>, <<"q", "u", "i", "t">>}
        /\ Says("Goodbye!", <<>>)
        /\ pc' = "exited"
        /\ UNCHANGED <<cliVars, sessionVars, columns, messages, userInput, requests,
                       streamVars, turnVars>>

\* /clear that pushes the system message without emptying the array first
ClearWithoutTruncate(msgs, sys) ==
    IF sys # <<>> THEN Append(msgs, Msg("system", sys)) ELSE msgs

\* /clear that empties the array and forgets the system message
ClearDropsSystem(msgs, sys) == SubSeq(msgs, 1, 0)

\* messages.length = 0, then the system message again when there is one
ClearMessages(msgs, sys) ==
    LET emptied == SubSeq(msgs, 1, 0)
    IN  IF sys # <<>> THEN Append(emptied, Msg("system", sys)) ELSE emptied

\* case 'clear'
Clear ==
    \E line \in InputLines :
        /\ Reads(line)
        /\ Word(line) = <<"c", "l", "e", "a", "r">>
        /\ messages' = ClearMessages(messages, system)
        /\ IF BoxThrows(HeaderTitleLen, columns)
           THEN Crashes
           ELSE Says("Conversation cleared.", <<>>) /\ UNCHANGED pc
        /\ orphan' = 0
        /\ orphanText' = <<>>
        /\ orphanShown' = <<>>
        /\ UNCHANGED <<cliVars, sessionVars, columns, userInput, requests, streamVars,
                       outcome, committed, received, preTurn, turns>>

\* case 'provider'
Provider ==
    \E line \in InputLines :
        /\ Reads(line)
        /\ Word(line) = <<"p", "r", "o", "v", "i", "d", "e", "r">>
        /\ LET args == Args(trim(line)) IN
           IF args # <<>> /\ args[1] # <<>>
           THEN Says("Switched to", args[1])
           ELSE Says("Usage: /provider <provider>", <<>>)
        /\ UNCHANGED <<cliVars, sessionVars, columns, messages, pc, userInput,
                       requests, streamVars, turnVars>>

\* the number of characters of all contents
RECURSIVE TotalLength(_)
TotalLength(msgs) ==
    IF msgs = <<>> THEN 0 ELSE Len(Head(msgs).content) + TotalLength(Tail(msgs))

\* an estimate that rounds up message by message
RECURSIVE TokenEstimateEach(_)
TokenEstimateEach(msgs) ==
    IF msgs = <<>> THEN 0
    ELSE ((Len(Head(msgs).content) + 3) \div 4) + TokenEstimateEach(Tail(msgs))

\* Math.ceil of the sum of content.length / 4: the quarters add up exactly
TokenEstimate(msgs) == (TotalLength(msgs) + 3) \div 4

\* case 'tokens'
Tokens ==
    \E line \in InputLines :
        /\ Reads(line)
        /\ Word(line) = <<"t", "o", "k", "e", "n", "s">>
        /\ Says("Estimated tokens used", <<TokenEstimate(messages)>>)
        /\ UNCHANGED <<cliVars, sessionVars, columns, messages, pc, userInput,
                       requests, streamVars, turnVars>>

\* the commands the README lists for the chat session
ReadmeCommands ==
    { <<"h", "e", "l", "p">>, <<"p", "r", "o", "v", "i", "d", "e", "r">>,
      <<"m", "o", "d", "e", "l">>, <<"s", "y", "s", "t", "e", "m">>,
      <<"c", "l", "e", "a", "r">>, <<"s", "a", "v", "e">>,
      <<"l", "o", "a", "d">>, <<"t", "o", "k", "e", "n", "s">>,
      <<"e", "x", "i", "t">>, <<"q", "u", "i", "t">> }

\* the cases of the switch
KnownCommands ==
    { <<"h", "e", "l", "p">>, <<"e", "x", "i", "t">>, <<"q", "u", "i", "t">>,
      <<"c", "l", "e", "a", "r">>, <<"p", "r", "o", "v", "i", "d", "e", "r">>,
      <<"t", "o", "k", "e", "n", "s">> }

\* a default branch that falls through to the chat turn's push
UnknownFallsThrough ==
    \E line \in InputLines :
        /\ Reads(line)
        /\ IsSlash(trim(line))
        /\ Word(line) \notin KnownCommands
        /\ messages' = Append(messages, Msg("user", trim(line)))
        /\ Says("Unknown command", <<>>)
        /\ UNCHANGED <<cliVars, sessionVars, columns, pc, userInput, requests,
                       streamVars, turnVars>>

\* default
Unknown ==
    \E line \in InputLines :
        /\ Reads(line)
        /\ IsSlash(trim(line))
        /\ Word(line) \notin KnownCommands
        /\ Says("Unknown command", <<>>)
        /\ UNCHANGED <<cliVars, sessionVars, columns, messages, pc, userInput,
                       requests, streamVars, turnVars>>

(***************************************************************************)
(* A chat turn                                                             *)
(***************************************************************************)
\* messages.push({ role: 'user', content: userInput })
PushUser(msgs, input) == Append(msgs, Msg("user", input))

\* a request object built from the transcript as it was before the push
RequestBeforePush(prov, msgs, streaming) ==
    [provider |-> prov, model |-> Gpt4o,
     messages |-> SubSeq(msgs, 1, Len(msgs) - 1), stream |-> streaming]

\* the request object of api.streamChat / api.chat
Request(prov, msgs, streaming) ==
    [provider |-> prov, model |-> Gpt4o, messages |-> msgs,
     stream |-> streaming]

\* the message sequence a request object holds: its messages property is
\* the array messages of chatCommand itself (a shorthand property, and the
\* spread of streamChat copies the reference), so it holds what the array
\* holds now; requests[i].messages is what was posted
RequestMessages(req) == messages

\* the line is a chat turn: the user message is pushed and the request is
\* handed to the transport (client.post); chatCommand then waits for it
SubmitChat ==
    \E line \in InputLines :
        /\ Reads(line)
        /\ turns < MaxTurns
        /\ userInput' = trim(line)
        /\ ~IsSlash(userInput')
        /\ preTurn' = messages
        /\ messages' = PushUser(messages, userInput')
        /\ requests' = Append(requests, Request(provider, messages', useStream))
        /\ pc' = IF useStream THEN "connect" ELSE "chat"
        /\ Says("AI:", <<>>)
        /\ turns' = turns + 1
        /\ outcome' = "running"
        /\ committed' = <<>>
        \* let response = '' of this turn; the stream of the turn before is
        \* no longer followed
        /\ response' = <<>>
        /\ terminal' = <<>>
        /\ promise' = "none"
        /\ stream' = "none"
        /\ chunks' = <<>>
        /\ wire' = <<>>
        /\ delivered' = <<>>
        /\ sentinel' = FALSE
        /\ afterDone' = <<>>
        /\ received' = NoBody
        /\ UNCHANGED <<cliVars, sessionVars, columns, orphan, orphanText, orphanShown>>

\* a catch block that commits what was streamed so far
CatchKeepsPartial(msgs, resp) == Append(msgs, Msg("assistant", resp))

\* a catch block that takes the user message of the turn back
CatchRollsBack(msgs, resp) == SubSeq(msgs, 1, Len(msgs) - 1)

\* the catch block of the turn: the error is reported, nothing else
CatchTurn(msgs, resp) == msgs

\* a commit that pushes the assistant message twice
CommitTwice(msgs, resp) ==
    Append(Append(msgs, Msg("assistant", resp)), Msg("assistant", resp))

\* messages.push({ role: 'assistant', content: response })
CommitAssistant(msgs, resp) == Append(msgs, Msg("assistant", resp))

\* the end of the loop body after the try block: the separator is drawn
\* and the loop goes back to the prompt
TurnEnd(text) ==
    IF SeparatorThrows(columns)
    THEN Crashes
    ELSE Says(text, <<>>) /\ pc' = "prompt"

\* the turn ends in the catch block, which reports error.message
Failed(message) ==
    /\ messages' = CatchTurn(messages, response)
    /\ TurnEnd(message)
    /\ outcome' = "failed"
    /\ orphan' = Len(messages)
    /\ orphanText' = userInput
    /\ orphanShown' = terminal
    /\ UNCHANGED <<cliVars, sessionVars, columns, userInput, typed, requests,
                   committed, preTurn, turns>>

\* client.post of streamChat answers with a response stream, one of
\* streams, which the transport cuts into chunks anywhere or at line ends
\* only
StreamConnect(streams, anywhere) ==
    /\ pc = "connect"
    /\ \E w \in streams :
         \E cs \in Chunkings(w, MaxCuts, anywhere) :
            /\ wire' = w
            /\ chunks' = cs
    /\ stream' = "open"
    /\ promise' = "pending"
    /\ pc' = "stream"
    /\ UNCHANGED <<cliVars, sessionVars, columns, messages, userInput, typed,
                   consoleVars, requests, response, terminal, delivered,
                   sentinel, afterDone, turnVars>>

\* client.post of streamChat rejects
ConnectFail ==
    /\ pc = "connect"
    /\ Failed("Error: no response")
    /\ UNCHANGED <<streamVars, received>>

\* an onChunk that puts the fragment in front of the accumulator
OnChunkPrepends(acc, chunk) == chunk \o acc

\* response += chunk in the onChunk callback of chatCommand
OnChunk(acc, chunk) == acc \o chunk

RECURSIVE OnChunkAll(_, _)
OnChunkAll(acc, frags) ==
    IF frags = <<>> THEN acc
    ELSE OnChunkAll(OnChunk(acc, Head(frags)), Tail(frags))

\* process.stdout.write(chunk) for every fragment
WriteAll(out, frags) == out \o Concat(frags)

\* a 'data' event of the response stream
StreamData ==
    /\ pc \notin Stopped
    /\ stream = "open"
    /\ chunks # <<>>
    /\ LET r == OnData(Head(chunks)) IN
         /\ terminal' = WriteAll(terminal, r.frags)
         /\ response' = OnChunkAll(response, r.frags)
         /\ delivered' = delivered \o r.frags
         /\ afterDone' = IF sentinel THEN afterDone \o r.frags ELSE afterDone
         /\ sentinel' = (sentinel \/ r.done)
         /\ promise' = IF r.done /\ promise = "pending" THEN "resolved"
                       ELSE promise
    /\ chunks' = Tail(chunks)
    /\ UNCHANGED <<cliVars, sessionVars, columns, messages, pc, userInput, typed,
                   consoleVars, requests, stream, wire, turnVars>>

\* an 'end' event that resolves nothing
StreamEndSilent ==
    /\ pc \notin Stopped
    /\ stream = "open"
    /\ chunks = <<>>
    /\ stream' = "ended"
    /\ UNCHANGED <<cliVars, sessionVars, columns, messages, pc, userInput, typed,
                   consoleVars, requests, response, terminal, promise, chunks,
                   wire, delivered, sentinel, afterDone, turnVars>>

\* the 'end' event of the response stream
StreamEnd ==
    /\ pc \notin Stopped
    /\ stream = "open"
    /\ chunks = <<>>
    /\ stream' = "ended"
    /\ promise' = IF promise = "pending" THEN "resolved" ELSE promise
    /\ UNCHANGED <<cliVars, sessionVars, columns, messages, pc, userInput, typed,
                   consoleVars, requests, response, terminal, chunks, wire,
                   delivered, sentinel, afterDone, turnVars>>

\* the 'error' event of the response stream
StreamError ==
    /\ pc \notin Stopped
    /\ stream = "open"
    /\ stream' = "errored"
    /\ chunks' = <<>>
    /\ promise' = IF promise = "pending" THEN "rejected" ELSE promise
    /\ UNCHANGED <<cliVars, sessionVars, columns, messages, pc, userInput, typed,
                   consoleVars, requests, response, terminal, wire, delivered,
                   sentinel, afterDone, turnVars>>

\* await api.streamChat(...) returns: the assistant message is pushed
CommitStream ==
    /\ pc = "stream"
    /\ promise = "resolved"
    /\ messages' = CommitAssistant(messages, response)
    /\ committed' = response
    /\ outcome' = "committed"
    /\ TurnEnd("separator")
    /\ UNCHANGED <<cliVars, sessionVars, columns, userInput, typed, requests,
                   streamVars, received, preTurn, orphan, orphanText,
                   orphanShown, turns>>

\* await api.streamChat(...) throws
CatchStream ==
    /\ pc = "stream"
    /\ promise = "rejected"
    /\ Failed("Error: stream failed")
    /\ UNCHANGED <<streamVars, received>>

\* response.choices[0].message.content and response.usage.total_tokens can
\* be read
Readable(r) == r.choices > 0 /\ r.usage

\* await api.chat(...) returns
ChatReturn ==
    /\ pc = "chat"
    /\ \E r \in ChatResponses :
         /\ received' = r
         /\ IF Readable(r)
            THEN /\ messages' = CommitAssistant(messages, r.content)
                 /\ committed' = r.content
                 /\ outcome' = "committed"
                 /\ TurnEnd("Tokens:")
                 /\ UNCHANGED <<cliVars, sessionVars, columns, userInput, typed,
                                requests, preTurn, orphan, orphanText,
                                orphanShown, turns>>
            ELSE Failed("Error: cannot read properties of undefined")
    /\ UNCHANGED streamVars

\* await api.chat(...) throws
ChatFail ==
    /\ pc = "chat"
    /\ Failed("Error: no response")
    /\ UNCHANGED <<streamVars, received>>

Next ==
    \/ RejectInput
    \/ PromptFails
    \/ Resize
    \/ Help
    \/ Exit
    \/ Clear
    \/ Provider
    \/ Tokens
    \/ Unknown
    \/ SubmitChat
    \/ StreamConnect(SessionStreams, FALSE)
    \/ ConnectFail
    \/ StreamData
    \/ StreamEnd
    \/ StreamError
    \/ CommitStream
    \/ CatchStream
    \/ ChatReturn
    \/ ChatFail

\* a session whose response streams are cut at line ends
Spec == Init /\ [][Next]_vars

\* one streaming turn of a session without system prompt, after the line
\* "hi": the response stream is cut anywhere
InitStream ==
    /\ CliInit
    /\ system = <<>>
    /\ columns = DefaultColumns
    /\ provider = Chatgpt
    /\ useStream = TRUE
    /\ userInput = <<"h", "i">>
    /\ typed = <<" ", "h", "i", " ">>
    /\ messages = PushUser(SeedMessages(system), userInput)
    /\ pc = "connect"
    /\ printed = "AI:"
    /\ printedArg = <<>>
    /\ requests = <<Request(provider, messages, useStream)>>
    /\ response = <<>>
    /\ terminal = <<>>
    /\ promise = "none"
    /\ stream = "none"
    /\ chunks = <<>>
    /\ wire = <<>>
    /\ delivered = <<>>
    /\ sentinel = FALSE
    /\ afterDone = <<>>
    /\ outcome = "running"
    /\ committed = <<>>
    /\ received = NoBody
    /\ preTurn = SeedMessages(system)
    /\ orphan = 0
    /\ orphanText = <<>>
    /\ orphanShown = <<>>
    /\ turns = 1

NextStream ==
    \/ StreamConnect(StreamCatalog, TRUE)
    \/ ConnectFail
    \/ StreamData
    \/ StreamEnd
    \/ StreamError
    \/ CommitStream
    \/ CatchStream

SpecStream == InitStream /\ [][NextStream]_vars

\* one chat turn, with or without streaming, from the push of the user
\* message on
InitTurn ==
    /\ CliInit
    /\ system = <<>>
    /\ columns = DefaultColumns
    /\ provider = Chatgpt
    /\ useStream \in BOOLEAN
    /\ userInput = <<"h", "i">>
    /\ typed = <<" ", "h", "i", " ">>
    /\ messages = PushUser(SeedMessages(system), userInput)
    /\ pc = IF useStream THEN "connect" ELSE "chat"
    /\ printed = "AI:"
    /\ printedArg = <<>>
    /\ requests = <<Request(provider, messages, useStream)>>
    /\ response = <<>>
    /\ terminal = <<>>
    /\ promise = "none"
    /\ stream = "none"
    /\ chunks = <<>>
    /\ wire = <<>>
    /\ delivered = <<>>
    /\ sentinel = FALSE
    /\ afterDone = <<>>
    /\ outcome = "running"
    /\ committed = <<>>
    /\ received = NoBody
    /\ preTurn = SeedMessages(system)
    /\ orphan = 0
    /\ orphanText = <<>>
    /\ orphanShown = <<>>
    /\ turns = 1

\* the events the transport owes: the answer to the post, the end or the
\* error of the response stream, the answer of api.chat
Transport ==
    \/ StreamConnect(StreamCatalog, TRUE)
    \/ ConnectFail
    \/ StreamEnd
    \/ StreamError
    \/ ChatReturn
    \/ ChatFail

\* chatCommand runs on after a settled await
Continuation == CommitStream \/ CatchStream

NextTurn == Transport \/ StreamData \/ Continuation

\* a turn in which the transport does not stall for ever and the event loop
\* runs the continuation of a settled promise
SpecLive ==
    InitTurn /\ [][NextTurn]_vars /\ WF_vars(Transport) /\ WF_vars(Continuation)

(***************************************************************************)
(* The commands login and config                                           *)
(***************************************************************************)
\* a command of the CLI is started from the shell
Starts ==
    /\ cli = "shell"
    /\ runs < MaxRuns
    /\ runs' = runs + 1
    /\ before' = conf

\* the command ends: process.exit or the return of its function
Ends(text) == said' = text /\ cli' = "shell"

\* the keys given with --key or typed at the prompt; the prompt takes keys
\* of the right format only
LoginKeys == {KeyA, KeyB, BadKey}

\* the bodies getCurrentUser can return: without apiKeys, with apiKeys,
\* with an entry of apiKeys that has no id
UserBodies == {"plain", "listed", "noid"}

\* config.delete('apiKey')
DeleteKey(store) == [store EXCEPT !["apiKey"] = Unset]

\* loginCommand up to await api.getCurrentUser()
LoginCommand ==
    \E key \in LoginKeys :
        /\ Starts
        /\ loginKey' = key
        /\ IF ~validateApiKey(key)
           THEN Ends("Invalid API key format. Expected format: ci_...")
                /\ UNCHANGED conf
           ELSE /\ conf' = [conf EXCEPT !["apiKey"] = Text(key)]
                /\ said' = "Validating API key..."
                /\ cli' = "login"
        /\ UNCHANGED <<chatVars, setArg, deleteVars, shown>>

\* api.getCurrentUser() returns and the user is printed
LoginReturn ==
    /\ cli = "login"
    /\ \E body \in UserBodies :
         IF body = "noid"
         THEN conf' = DeleteKey(conf) /\ Ends("Login failed:")
         ELSE UNCHANGED conf /\ Ends("Login successful!")
    /\ UNCHANGED <<chatVars, loginKey, setArg, deleteVars, shown, before,
                   runs>>

\* a failed login that puts back the configuration of before the command
LoginFailRestores ==
    /\ cli = "login"
    /\ conf' = before
    /\ Ends("Login failed:")
    /\ UNCHANGED <<chatVars, loginKey, setArg, deleteVars, shown, before,
                   runs>>

\* api.getCurrentUser() throws
LoginFail ==
    /\ cli = "login"
    /\ conf' = DeleteKey(conf)
    /\ Ends("Login failed:")
    /\ UNCHANGED <<chatVars, loginKey, setArg, deleteVars, shown, before,
                   runs>>

\* what is typed after config set
SetInputs ==
    { [key |-> "maxTokens", value |-> <<>>, given |-> FALSE],
      Arg("", <<"2">>),
      Arg("colour", <<"2">>),
      Arg("maxTokens", <<"1", "2", "x">>),
      Arg("maxTokens", <<"x">>),
      Arg("historyLimit", <<"2">>),
      Arg("historyLimit", <<>>),
      Arg("temperature", <<"1", ".", "5">>),
      Arg("temperature", <<"2", ".", "5">>),
      Arg("temperature", <<"-", "1">>),
      Arg("temperature", <<"x">>),
      Arg("debug", <<"T", "R", "U", "E">>),
      Arg("apiKey", ShortSecret) }

\* the greatest temperature, in tenths
MaxTemperature == 20

\* a conversion that refuses no value
TypedValueUnchecked(key, value) ==
    IF key \in {"maxTokens", "historyLimit"}
    THEN [refused |-> FALSE, value |-> Number(parseInt(value).num)]
    ELSE IF key = "temperature"
    THEN [refused |-> FALSE, value |-> Number(parseFloat(value).num)]
    ELSE IF key \in {"streamResponse", "saveHistory", "debug"}
    THEN [refused |-> FALSE,
          value |-> Flag(toLowerCase(value) = <<"t", "r", "u", "e">>)]
    ELSE [refused |-> FALSE, value |-> Text(value)]

\* the type conversion of config set: the value to store, or the refusal
TypedValue(key, value) ==
    IF key \in {"maxTokens", "historyLimit"}
    THEN LET n == parseInt(value) IN
         [refused |-> n.nan, value |-> Number(n.num)]
    ELSE IF key = "temperature"
    THEN LET n == parseFloat(value) IN
         [refused |-> n.nan \/ n.num < 0 \/ n.num > MaxTemperature,
          value |-> Number(n.num)]
    ELSE IF key \in {"streamResponse", "saveHistory", "debug"}
    THEN [refused |-> FALSE,
          value |-> Flag(toLowerCase(value) = <<"t", "r", "u", "e">>)]
    ELSE [refused |-> FALSE, value |-> Text(value)]

\* case 'set'
ConfigSet ==
    \E arg \in SetInputs :
        /\ Starts
        /\ IF arg.key = "" \/ ~arg.given
           THEN Ends("Usage: chatinstance config set <key> <value>")
                /\ UNCHANGED conf
           ELSE IF arg.key \notin ValidKeys
           THEN Ends("Unknown configuration key") /\ UNCHANGED conf
           ELSE IF TypedValue(arg.key, arg.value).refused
           THEN Ends("must be a number") /\ UNCHANGED conf
           ELSE /\ conf' = [conf EXCEPT
                              ![arg.key] = TypedValue(arg.key, arg.value).value]
                /\ Ends("Set")
        /\ setArg' = arg
        /\ shown' = {}
        /\ UNCHANGED <<chatVars, loginKey, deleteVars>>

\* the last four characters of a key: slice(-4)
MaskTail == 4
\* '***' + apiKey.slice(-4)
Mask(key) ==
    <<"*", "*", "*">> \o SubSeq(key, Max(1, Len(key) - MaskTail + 1), Len(key))

\* what config get and config list write for a key: the mask for an apiKey
\* that is not empty, the value itself for the rest
Display(key, value) ==
    IF key = "apiKey" /\ value.kind = "text" /\ value.text # <<>>
    THEN Text(Mask(value.text))
    ELSE value

\* the keys typed after config get
GetKeys == {"apiKey", "maxTokens", "colour", ""}

\* case 'get'
ConfigGet ==
    \E key \in GetKeys :
        /\ Starts
        /\ IF key = ""
           THEN Ends("Usage: chatinstance config get <key>") /\ shown' = {}
           ELSE /\ Ends("get")
                /\ shown' = {<<key, IF key \in ValidKeys
                                     THEN Display(key, conf[key])
                                     ELSE Unset>>}
        /\ UNCHANGED <<chatVars, conf, loginKey, setArg, deleteVars>>

\* case 'list': the entries of getDisplayConfig()
ConfigList ==
    /\ Starts
    /\ Ends("Current Configuration:")
    /\ shown' = {<<k, Display(k, conf[k])>> : k \in ValidKeys}
    /\ UNCHANGED <<chatVars, conf, loginKey, setArg, deleteVars>>

\* case 'reset', confirmed: conf.clear()
ConfigReset ==
    /\ Starts
    /\ conf' = Defaults
    /\ Ends("Configuration reset to defaults.")
    /\ shown' = {}
    /\ UNCHANGED <<chatVars, loginKey, setArg, deleteVars>>

\* case 'reset', declined
ResetCancelled ==
    /\ Starts
    /\ Ends("Reset cancelled.")
    /\ shown' = {}
    /\ UNCHANGED <<chatVars, conf, loginKey, setArg, deleteVars>>

\* if (!apiKey) of instancesCommand
LoggedIn == conf["apiKey"] # Unset /\ conf["apiKey"].text # <<>>

\* instancesCommand('delete') up to await api.getInstance(options.id)
InstancesDelete ==
    \E f \in BOOLEAN :
        /\ Starts
        /\ IF ~LoggedIn
           THEN Ends("Please login first: chatinstance login")
                /\ UNCHANGED <<force, fetched, answer>>
           ELSE /\ force' = f
                /\ fetched' = FALSE
                /\ answer' = "none"
                /\ said' = "none"
                /\ cli' = "fetch"
        /\ UNCHANGED <<chatVars, conf, loginKey, setArg, deletes, shown>>

\* api.getInstance returns the instance: with --force the delete request
\* is sent, without it the confirmation is asked
FetchOk ==
    /\ cli = "fetch"
    /\ fetched' = TRUE
    /\ IF force
       THEN /\ deletes' = deletes + 1
            /\ said' = "Deleting instance..."
            /\ cli' = "delete"
       ELSE /\ UNCHANGED <<deletes, said>>
            /\ cli' = "confirm"
    /\ UNCHANGED <<chatVars, conf, loginKey, setArg, force, answer, shown,
                   before, runs>>

\* api.getInstance throws
FetchFail ==
    /\ cli = "fetch"
    /\ \E text \in {"Instance not found.", "Instances command failed:"} :
         Ends(text)
    /\ UNCHANGED <<chatVars, conf, loginKey, setArg, deleteVars, shown,
                   before, runs>>

\* the user declines and the delete request is sent all the same
ConfirmNoDeletes ==
    /\ cli = "confirm"
    /\ answer' = "no"
    /\ deletes' = deletes + 1
    /\ said' = "Deleting instance..."
    /\ cli' = "delete"
    /\ UNCHANGED <<chatVars, conf, loginKey, setArg, force, fetched, shown,
                   before, runs>>

\* the user confirms: the delete request is sent
ConfirmYes ==
    /\ cli = "confirm"
    /\ answer' = "yes"
    /\ deletes' = deletes + 1
    /\ said' = "Deleting instance..."
    /\ cli' = "delete"
    /\ UNCHANGED <<chatVars, conf, loginKey, setArg, force, fetched, shown,
                   before, runs>>

\* the user declines
ConfirmNo ==
    /\ cli = "confirm"
    /\ answer' = "no"
    /\ Ends("Deletion cancelled.")
    /\ UNCHANGED <<chatVars, conf, loginKey, setArg, force, fetched, deletes,
                   shown, before, runs>>

\* the prompt of the confirmation rejects
ConfirmFails ==
    /\ cli = "confirm"
    /\ answer' = "closed"
    /\ Ends("Instances command failed:")
    /\ UNCHANGED <<chatVars, conf, loginKey, setArg, force, fetched, deletes,
                   shown, before, runs>>

\* api.deleteInstance returns
DeleteOk ==
    /\ cli = "delete"
    /\ Ends("Instance deleted successfully.")
    /\ UNCHANGED <<chatVars, conf, loginKey, setArg, deleteVars, shown,
                   before, runs>>

\* api.deleteInstance throws
DeleteFail ==
    /\ cli = "delete"
    /\ \E text \in {"Instance not found.", "Instances command failed:"} :
         Ends(text)
    /\ UNCHANGED <<chatVars, conf, loginKey, setArg, deleteVars, shown,
                   before, runs>>

NextCli ==
    \/ LoginCommand
    \/ LoginReturn
    \/ LoginFail
    \/ ConfigSet
    \/ ConfigGet
    \/ ConfigList
    \/ ConfigReset
    \/ ResetCancelled
    \/ InstancesDelete
    \/ FetchOk
    \/ FetchFail
    \/ ConfirmYes
    \/ ConfirmNo
    \/ ConfirmFails
    \/ DeleteOk
    \/ DeleteFail

\* commands of the CLI run one after the other on one stored configuration
SpecCli == Init /\ [][NextCli]_vars

(***************************************************************************)
(* Properties                                                              *)
(***************************************************************************)
Last(seq) == seq[Len(seq)]

RECURSIVE AssistantCount(_)
AssistantCount(msgs) ==
    IF msgs = <<>> THEN 0
    ELSE (IF Head(msgs).role = "assistant" THEN 1 ELSE 0)
         + AssistantCount(Tail(msgs))

\* chatCommand waits for the transport
Awaiting == pc \in {"connect", "stream", "chat"}

\* the step in which a turn ends in the catch block
TurnFails == outcome = "running" /\ outcome' = "failed"

\* the step takes a line from the prompt and runs the loop body on it; the
\* line is typed'
TakesLine ==
    /\ pc = "prompt"
    /\ pc' # "closed"
    /\ <<typed, printed, printedArg, messages, pc, requests>>'
          # <<typed, printed, printedArg, messages, pc, requests>>

\* the line the step takes is a slash command
TakesSlash == TakesLine /\ startsWith(trim(typed'), <<"/">>)

\* the command token of a slash command, in lower case
Token(line) == toLowerCase(Head(split(slice(trim(line), 1), SP)))

\* C1: when a well-formed event stream has been delivered to its end, the
\* fragments handed to onChunk are those of the unsplit stream, however the
\* transport cut it into chunks
C1_SplitsDoNotMatter ==
    (stream = "ended" /\ wire \in WellFormed)
        => delivered = OnData(wire).frags

\* C2: the step that commits a streaming turn appends one assistant message
\* whose content is the concatenation, in arrival order, of the fragments
\* handed to onChunk in that turn
C2_CommitIsConcatenation ==
    [][(pc = "stream" /\ outcome' = "committed")
          => messages' = Append(messages, Msg("assistant", Concat(delivered)))
      ]_vars

\* a streaming turn was committed from more than one fragment
C2_Witness ==
    /\ useStream
    /\ outcome = "committed"
    /\ Len(delivered) >= 2
    /\ Last(messages) = Msg("assistant", <<"H", "i", "!">>)

\* C3: what a committed streaming turn wrote to the terminal fragment by
\* fragment is the content committed for it
C3_TerminalIsCommitted ==
    (useStream /\ outcome = "committed") => terminal = committed

\* C4: no fragment is handed to onChunk after the sentinel was seen
C4_NothingAfterSentinel == afterDone = <<>>

\* C5: while the transport is awaited the transcript ends with the user
\* message of the turn; an assistant message is appended only by the step
\* that follows a resolved streamChat or a returned chat call, one at a time;
\* a turn that fails appends none
C5_AtomicCommit ==
    [][/\ Awaiting' => messages' = PushUser(preTurn', userInput')
       /\ AssistantCount(messages') > AssistantCount(messages)
            => /\ (pc = "stream" /\ promise = "resolved") \/ pc = "chat"
               /\ outcome' = "committed"
               /\ messages' = Append(messages, Msg("assistant", committed'))
       /\ TurnFails => AssistantCount(messages') = AssistantCount(messages)
      ]_vars

\* a streaming turn failed after fragments were displayed
C5_Witness ==
    /\ outcome = "failed"
    /\ pc = "prompt"
    /\ terminal # <<>>
    /\ AssistantCount(messages) = 0

\* C6 as stated: a turn that fails after partial streaming output leaves the
\* transcript as it was before the line of the turn was read
C6_FailedTurnRestoresTranscript ==
    [][(TurnFails /\ terminal # <<>>) => messages' = preTurn]_vars

\* C6 amended: a turn that fails after partial streaming output leaves the
\* transcript as it was when the request was sent: the transcript from
\* before the turn followed by the user message of the turn
C6_FailedTurnKeepsUserOnly ==
    [][(TurnFails /\ terminal # <<>>)
          => messages' = Append(preTurn, Msg("user", userInput))]_vars

\* the second turn of a session failed after partial output
C6_Witness ==
    /\ outcome = "failed"
    /\ terminal # <<>>
    /\ turns = 2
    /\ Len(preTurn) >= 2
    /\ messages = Append(preTurn, Msg("user", userInput))

\* C7: the user message of a turn that failed after a fragment was displayed
\* stays where it was pushed, is not followed by an assistant message, and
\* is part of the message list of the next request
C7_FailedUserMessageKept ==
    (orphan > 0 /\ orphanShown # <<>>)
        => /\ orphan <= Len(messages)
           /\ messages[orphan] = Msg("user", orphanText)
           /\ orphan < Len(messages)
                => messages[orphan + 1].role # "assistant"
           /\ outcome = "running"
                => /\ orphan < Len(Last(requests).messages)
                   /\ Last(requests).messages[orphan] = Msg("user", orphanText)

\* the turn after one that failed mid-stream has sent its request
C7_Witness ==
    /\ orphan > 0
    /\ orphanShown # <<>>
    /\ outcome = "running"
    /\ pc = "stream"
    /\ Len(requests) = 2

\* C8: the transcript holds at most one system message; it is the first
\* message and carries the system prompt of the session
C8_OneSystemMessage ==
    \A i \in 1..Len(messages) :
        messages[i].role = "system"
            => i = 1 /\ system # <<>> /\ messages[i].content = system

\* a session with a system prompt was cleared between two turns
C8_Witness ==
    /\ system # <<>>
    /\ turns = 2
    /\ outcome = "committed"
    /\ Len(messages) = 3
    /\ messages[1].role = "system"

\* C9: after /clear the transcript is the system message alone when the
\* session has a system prompt, and empty otherwise
C9_ClearLeavesSystemOnly ==
    printed = "Conversation cleared."
        => messages = IF system # <<>>
                      THEN <<[role |-> "system", content |-> system]>>
                      ELSE <<>>

\* /clear after two committed turns of a session with a system prompt
C9_Witness ==
    /\ printed = "Conversation cleared."
    /\ system = Terse
    /\ turns = 2
    /\ outcome = "committed"
    /\ messages = <<Msg("system", Terse)>>

\* C10: the request of a chat turn that follows "/provider X" names
\* provider X
C10_ProviderSwitchTakesEffect ==
    [][(printed = "Switched to" /\ Len(requests') > Len(requests))
          => Last(requests').provider = printedArg]_vars

\* C11: a slash command other than /clear leaves the transcript as it was,
\* and no slash command makes the transcript longer
C11_SlashCommandsKeepTranscript ==
    [][TakesSlash =>
          /\ Len(messages') <= Len(messages)
          /\ (Token(typed') # <<"c", "l", "e", "a", "r">>
                => messages' = messages)]_vars

\* an unknown command has been dispatched after a committed turn
C11_Witness ==
    /\ pc = "prompt"
    /\ typed = <<"/", "m", "o", "d", "e", "l", SP, "x">>
    /\ printed = "Unknown command"
    /\ outcome = "committed"
    /\ Len(messages) >= 2

\* C12: a line that begins with "/" hands no request to the transport; a
\* request is handed over only in the step that takes a chat line, and
\* one request at a time
C12_SlashNeverCallsTransport ==
    [][/\ (TakesSlash => requests' = requests)
       /\ (requests' # requests =>
              /\ TakesLine
              /\ Len(trim(typed')) > 0
              /\ ~startsWith(trim(typed'), <<"/">>)
              /\ Len(requests') = Len(requests) + 1
              /\ SubSeq(requests', 1, Len(requests)) = requests)]_vars

\* /tokens has been dispatched in a session that has sent one request
C12_Witness ==
    /\ pc = "prompt"
    /\ typed = <<"/", "t", "o", "k", "e", "n", "s">>
    /\ printed = "Estimated tokens used"
    /\ Len(requests) = 1

\* the line the step takes is a chat line
TakesChat ==
    /\ TakesLine
    /\ Len(trim(typed')) > 0
    /\ ~startsWith(trim(typed'), <<"/">>)

\* C13: a chat line is appended, trimmed, as one user message, and the
\* request handed to the transport in that step carries exactly the
\* transcript that ends with this message
C13_UserMessageThenRequest ==
    [][TakesChat =>
          /\ messages' = Append(messages,
                                [role |-> "user", content |-> trim(typed')])
          /\ Len(requests') = Len(requests) + 1
          /\ Last(requests').messages = messages'
          /\ pc' \in {"connect", "chat"}]_vars

\* the second chat line of a session has been handed to the transport
C13_Witness ==
    /\ pc \in {"connect", "chat"}
    /\ turns = 2
    /\ Len(messages) >= 3
    /\ Last(messages) = [role |-> "user", content |-> <<"h", "i">>]
    /\ Last(requests).messages = messages

\* C14: no step changes the message sequence of a request that has been
\* handed to the transport
C14_RequestHoldsACopy ==
    [][\A i \in 1..Len(requests) :
          RequestMessages(requests[i])' = RequestMessages(requests[i])]_vars

\* the step in which a turn completes without error
TurnCompletes == outcome = "running" /\ outcome' = "committed"

\* C15: a turn that completes without error appends exactly one assistant
\* message, directly after the user message of the turn: the concatenation
\* of the fragments when streaming, the content of the first choice of the
\* body when not
C15_OneAssistantAfterUser ==
    [][TurnCompletes =>
          /\ Last(messages) = [role |-> "user", content |-> userInput]
          /\ messages' =
                Append(messages,
                       [role |-> "assistant",
                        content |-> IF Last(requests).stream
                                    THEN Concat(delivered)
                                    ELSE received'.content])
          /\ (~Last(requests).stream => received'.choices >= 1)]_vars

\* the second turn of a session without streaming has been committed
C15_Witness ==
    /\ pc = "prompt"
    /\ ~useStream
    /\ turns = 2
    /\ outcome = "committed"
    /\ received.choices >= 1
    /\ received.content # <<>>
    /\ Len(messages) >= 4
    /\ Last(messages) = [role |-> "assistant", content |-> received.content]
    /\ messages[Len(messages) - 1].role = "user"

\* the line is empty or made of white space only
Blank(line) == \A i \in 1..Len(line) : line[i] \in {" ", "\t", "\r", "\n"}

\* C16: the prompt refuses a line exactly when the line is blank; a
\* refused line leaves the transcript and the requests as they were and the
\* prompt is issued again
C16_BlankLinesRejected ==
    [][TakesLine =>
          /\ Blank(typed') <=> (printed' = "Please enter a message")
          /\ Blank(typed') =>
                /\ messages' = messages
                /\ requests' = requests
                /\ pc' = "prompt"]_vars

\* a line of blanks has been refused after a committed turn
C16_Witness ==
    /\ pc = "prompt"
    /\ typed = <<SP, SP, SP>>
    /\ printed = "Please enter a message"
    /\ outcome = "committed"
    /\ Len(messages) >= 2
    /\ Len(requests) >= 1

\* the line the step takes is /exit or /quit
TakesExit ==
    /\ TakesSlash
    /\ Token(typed') \in {<<"e", "x", "i", "t">>, <<"q", "u", "i", "t">>}

\* C17: after a failed turn and after a slash command other than exit
\* and quit the loop is at the prompt again, and the session ends only by
\* /exit, /quit or a failure of the prompt
C17_LoopSurvives ==
    [][/\ (TurnFails => pc' = "prompt")
       /\ ((TakesSlash /\ ~TakesExit) => pc' = "prompt")
       /\ ((pc \notin Stopped /\ pc' \in Stopped)
             => (TakesExit \/ pc' = "closed"))]_vars

\* the two words are the same up to letter case
SameWord(a, b) ==
    /\ Len(a) = Len(b)
    /\ \A i \in 1..Len(a) : LowerChar(a[i]) = LowerChar(b[i])

\* the line is /exit or /quit in some letter case, with or without
\* arguments
ExitLine(line) ==
    \E w \in {<<"/", "e", "x", "i", "t">>, <<"/", "q", "u", "i", "t">>} :
        SameWord(Head(split(trim(line), SP)), w)

\* C18: /exit and /quit, in any letter case, end the session, and in the
\* ended session no line is read, no request is handed to the transport
\* and the transcript stays as it is
C18_ExitIsTerminal ==
    [][/\ ((TakesSlash /\ ExitLine(typed')) => pc' = "exited")
       /\ (pc = "exited" =>
              /\ pc' = "exited"
              /\ typed' = typed
              /\ requests' = requests
              /\ messages' = messages
              /\ delivered' = delivered)]_vars

\* /QUIT has ended a session whose last response stream is still open
C18_Witness ==
    /\ pc = "exited"
    /\ typed = <<"/", "Q", "U", "I", "T">>
    /\ printed = "Goodbye!"
    /\ stream = "open"
    /\ chunks # <<>>
    /\ Len(messages) >= 2

\* C19: once the prompt of the next turn is issued, no chunk of the stream
\* of the turn before is processed: at the prompt nothing is handed to
\* onChunk and nothing of a stream is written to the terminal
C19_TurnsDoNotOverlap ==
    [][(pc = "prompt" /\ pc' = "prompt")
          => (delivered' = delivered /\ terminal' = terminal)]_vars

\* the line is a data line whose payload is the sentinel up to letter case
\* and surrounding white space
SentinelLike(line) ==
    /\ startsWith(line, DataPrefix)
    /\ trim(slice(line, PrefixLen)) \in {<<"[DONE]">>, <<"[done]">>}

\* the lines that stand before the first line like the sentinel
RECURSIVE LinesBefore(_)
LinesBefore(lines) ==
    IF lines = <<>> \/ SentinelLike(Head(lines)) THEN <<>>
    ELSE <<Head(lines)>> \o LinesBefore(Tail(lines))

\* C20: when a stream that holds a line like the sentinel arrives as one
\* chunk, the 'data' handler ends the stream at that line: the promise is
\* resolved and only the fragments of the lines before it are handed to
\* onChunk
C20_SentinelInAnyCase ==
    [][(/\ pc = "stream"
        /\ promise = "pending"
        /\ chunks = <<wire>>
        /\ chunks' = <<>>
        /\ stream = "open"
        /\ stream' = "open"
        /\ \E i \in 1..Len(split(wire, NL)) :
              SentinelLike(split(wire, NL)[i]))
          => /\ promise' = "resolved"
             /\ sentinel'
             /\ delivered' = delivered
                   \o HandleLines(LinesBefore(split(wire, NL)), <<>>).frags]_vars

\* the step in which the 'data' handler gets a whole stream as one chunk
WholeStreamStep ==
    /\ pc = "stream"
    /\ promise = "pending"
    /\ stream = "open"
    /\ stream' = "open"
    /\ chunks = <<wire>>
    /\ chunks' = <<>>

\* the line begins with the six characters of "data: "
HasDataPrefix(line) == Len(line) >= 2 /\ line[1] = "data:" /\ line[2] = " "

\* the line is the data line of the sentinel
IsDoneLine(line) ==
    HasDataPrefix(line) /\ trim(SubSeq(line, 3, Len(line))) = <<"[DONE]">>

\* the content of a data line that carries a JSON event with a content
\* string, <<>> for every other line
EventContent(line) ==
    IF /\ HasDataPrefix(line)
       /\ Len(line) >= 5
       /\ line[3] = JsonOpen
       /\ line[Len(line)] = JsonClose
       /\ \A i \in 4..(Len(line) - 1) : line[i] \in ContentChars
    THEN SubSeq(line, 4, Len(line) - 1)
    ELSE <<>>

\* the contents of the events of the lines up to the sentinel, in order
RECURSIVE Fragments(_)
Fragments(lines) ==
    IF lines = <<>> \/ IsDoneLine(Head(lines)) THEN <<>>
    ELSE IF EventContent(Head(lines)) = <<>> THEN Fragments(Tail(lines))
    ELSE <<EventContent(Head(lines))>> \o Fragments(Tail(lines))

\* the stream has a data line, before the sentinel, that is neither an event
\* with content nor the sentinel
RECURSIVE HasUnusable(_)
HasUnusable(lines) ==
    /\ lines # <<>>
    /\ ~IsDoneLine(Head(lines))
    /\ \/ HasDataPrefix(Head(lines)) /\ EventContent(Head(lines)) = <<>>
       \/ HasUnusable(Tail(lines))

\* C21: a data line whose payload is no JSON or has no content fragment
\* yields nothing and ends nothing: the promise is not rejected, the stream
\* stays open and the fragments handed to onChunk are those of all the
\* events of the stream up to the sentinel
C21_UnusablePayloadSkipped ==
    [][(WholeStreamStep /\ HasUnusable(split(wire, NL)))
          => /\ promise' # "rejected"
             /\ response' = response \o Concat(Fragments(split(wire, NL)))
             /\ delivered' = delivered \o Fragments(split(wire, NL))]_vars

\* the stream with the two unusable payloads has been handled and both of
\* its events were delivered
C21_Witness ==
    /\ wire = WireBad
    /\ chunks = <<>>
    /\ sentinel
    /\ promise = "resolved"
    /\ delivered = << <<"H", "i">>, <<"!">> >>

\* the stream has a line that does not begin with "data: "
HasOtherLine(lines) == \E i \in 1..Len(lines) : ~HasDataPrefix(lines[i])

\* C22: only the lines that begin with "data: " yield fragments; the other
\* lines are dropped without an error, and the fragments handed to onChunk
\* are those of the stream without these lines
C22_OnlyDataLinesCount ==
    [][(WholeStreamStep /\ HasOtherLine(split(wire, NL)))
          => /\ promise' # "rejected"
             /\ Len(delivered') - Len(delivered)
                  <= Len(SelectSeq(split(wire, NL), HasDataPrefix))
             /\ delivered' = delivered
                   \o Fragments(SelectSeq(split(wire, NL), HasDataPrefix))]_vars

\* the stream with the comment, the blank line, the event: line, the DATA:
\* line and the data: line without space has been handled: its two events
\* were delivered and nothing else
C22_Witness ==
    /\ wire = WireNoise
    /\ chunks = <<>>
    /\ sentinel
    /\ promise = "resolved"
    /\ response = <<"H", "i", "!">>
    /\ delivered = << <<"H", "i">>, <<"!">> >>

\* the number of characters of the contents of the first n messages
RECURSIVE CharCount(_, _)
CharCount(msgs, n) ==
    IF n = 0 THEN 0 ELSE Len(msgs[n].content) + CharCount(msgs, n - 1)

\* the least integer that is at least n / 4
CeilOfQuarter(n) == CHOOSE k \in 0..n : 4 * k >= n /\ 4 * (k - 1) < n

\* C23: /tokens reports the characters of all contents of the transcript,
\* divided by 4 and rounded up once
C23_TokensRoundUpOnce ==
    [][(TakesSlash /\ Token(typed') = <<"t", "o", "k", "e", "n", "s">>)
          => /\ printed' = "Estimated tokens used"
             /\ printedArg'
                  = <<CeilOfQuarter(CharCount(messages, Len(messages)))>>
             /\ messages' = messages]_vars

\* /tokens has reported 1 for a transcript of two messages of two
\* characters each, which message by message would count 2
C23_Witness ==
    /\ pc = "prompt"
    /\ typed = <<"/", "t", "o", "k", "e", "n", "s">>
    /\ printed = "Estimated tokens used"
    /\ printedArg = <<1>>
    /\ messages = <<[role |-> "user", content |-> <<"h", "i">>],
                    [role |-> "assistant", content |-> <<"H", "i">>]>>

\* C24: with a transport that goes on delivering, every turn that waits
\* for the transport comes back to the prompt; and the wait for a stream
\* ends only when the promise of streamChat is settled by an event of the
\* transport, never by the loop itself
C24_TurnsFinish ==
    /\ Awaiting ~> (pc = "prompt")
    /\ [][(pc = "stream" /\ pc' # "stream")
            => promise \in {"resolved", "rejected"}]_vars

\* the turn has come back to the prompt after a stream that ended without
\* a sentinel
C24_Witness ==
    /\ pc = "prompt"
    /\ useStream
    /\ wire = WireNoDone
    /\ stream = "ended"
    /\ ~sentinel
    /\ outcome = "committed"

\* C25: a command the README lists for the chat session is not answered
\* with "Unknown command"
C25_ReadmeCommandsKnown ==
    [][(TakesSlash /\ Token(typed') \in ReadmeCommands)
          => printed' # "Unknown command"]_vars

\* C26: every assistant message of the transcript stands directly after a
\* user message
C26_AssistantFollowsUser ==
    \A i \in 1..Len(messages) :
        messages[i].role = "assistant"
            => (i > 1 /\ messages[i - 1].role = "user")

\* after a failed turn and a committed one the transcript holds the system
\* message, two user messages in a row and the assistant message
C26_Witness ==
    /\ Len(messages) = 4
    /\ messages[1].role = "system"
    /\ messages[2].role = "user"
    /\ messages[3].role = "user"
    /\ messages[4].role = "assistant"
    /\ outcome = "committed"

\* a step that starts a command of the CLI
CommandStep == cli = "shell" /\ runs' = runs + 1

\* the step of loginCommand that takes the key
LoginStep ==
    /\ CommandStep
    /\ said' \in {"Validating API key...",
                  "Invalid API key format. Expected format: ci_..."}

\* the step in which the remote validation of a login fails
LoginFailStep == cli = "login" /\ said' = "Login failed:"

\* C27: login stores the key before the remote validation, so while the
\* validation is awaited the stored apiKey is the key of this login; when
\* the validation fails the stored apiKey is deleted, whatever key was
\* stored before the login; a key of the wrong format leaves the stored
\* configuration as it was.
C27_LoginStoresThenDeletes ==
    /\ [][(LoginStep /\ validateApiKey(loginKey'))
            => (cli' = "login"
                /\ conf' = [conf EXCEPT !["apiKey"] = Text(loginKey')])]_vars
    /\ [][LoginFailStep => (conf'["apiKey"] = Unset)]_vars
    /\ [][(LoginStep /\ ~validateApiKey(loginKey'))
            => (conf' = conf /\ cli' = "shell")]_vars
    /\ [](cli = "login" => conf["apiKey"] = Text(loginKey))

\* a second login with another key has failed: the key of the first login
\* is gone
C27_Witness ==
    /\ before["apiKey"] = Text(KeyA)
    /\ loginKey = KeyB
    /\ said = "Login failed:"
    /\ conf["apiKey"] = Unset

\* config get or config list has just written its output
JustShown == said \in {"get", "Current Configuration:"}

\* the characters of the key that a display of it reveals
Revealed(display) == SubSeq(display.text, 4, Len(display.text))

\* C28: for every stored API key, what config get apiKey and config list
\* write for it is *** followed by the last four characters of the key, and
\* never the whole key.
C28_KeyNeverShownWhole ==
    (JustShown /\ conf["apiKey"] # Unset /\ conf["apiKey"].text # <<>>)
        => \A entry \in shown :
              entry[1] = "apiKey"
                  => /\ entry[2] = Text(Mask(conf["apiKey"].text))
                     /\ Len(Revealed(entry[2])) <= MaskTail
                     /\ Revealed(entry[2]) # conf["apiKey"].text

\* the step of config set
SetStep ==
    /\ CommandStep
    /\ said' \in {"Set", "Usage: chatinstance config set <key> <value>",
                  "Unknown configuration key", "must be a number"}

\* the key is one of the known keys and the value passes the check of the key
Passes(arg) ==
    /\ arg.given
    /\ arg.key \in ValidKeys
    /\ arg.key \in {"maxTokens", "historyLimit"} => ~parseInt(arg.value).nan
    /\ arg.key = "temperature"
           => /\ ~parseFloat(arg.value).nan
              /\ parseFloat(arg.value).num >= 0
              /\ parseFloat(arg.value).num <= MaxTemperature

C29_DeleteOnlyAfterFetchAndConsent ==
    /\ [][deletes' # deletes
            => /\ deletes' = deletes + 1
               /\ fetched'
               /\ force' \/ answer' = "yes"]_vars
    /\ [][(cli = "fetch" /\ ~fetched')
            => (deletes' = deletes /\ cli' = "shell")]_vars
    /\ [][(cli = "confirm" /\ answer' # "yes")
            => (deletes' = deletes /\ cli' = "shell")]_vars
    /\ [](cli = "delete" => fetched /\ (force \/ answer = "yes"))

\* without --force, the user has confirmed and the delete request is out
C29_Witness ==
    /\ cli = "delete"
    /\ ~force
    /\ fetched
    /\ answer = "yes"
    /\ deletes = 1

====
